---- MODULE Spec2Model ----
(***************************************************************************)
(* Model of scripts/organize.py: the checkpointed, multi-process pipeline  *)
(* that streams reddit dump files, groups allow-listed rows by             *)
(* (month, subreddit), hands batches to writer processes over a bounded    *)
(* queue, persists (file, offset) confirmations through a checkpoint       *)
(* process and compresses the shards after every input file.               *)
(***************************************************************************)
EXTENDS Integers, Sequences, FiniteSets, TLC

\* ------------------------------------------------------------ constants

\* organize.py:43 NUM_PROCESSES = mp.cpu_count(); a two-core machine.
NUM_PROCESSES == 2
\* organize.py:26 CHUNK_SIZE = 1_000_000 rows per batch, scaled to 2 rows.
CHUNK_SIZE == 2
\* organize.py:185 maxsize = 10 * NUM_PROCESSES, the factor scaled to 1.
QUEUE_FACTOR == 1
\* organize.py:47 sanitized[:50]
MAX_NAME_LEN == 50
\* organize2.py:32 BUFFER_SIZE = 1024 * 1024 bytes, scaled and counted in rows
BUFFER_SIZE == 2

\* ------------------------------------------------------------ bounds

\* Longest input file, in rows.
MaxRecords == 3
\* How many times main() is started (a first run and restarts).
MaxRuns == 2
\* How many I/O errors the environment raises in process_file.
MaxIOErrors == 1
\* Rows of the one input file of the runs that fill the work queue.
LongLen == 6
\* Longest tail of the names sanitize_subreddit_name is applied to, and how
\* many times it is applied in a row.
MaxSuffix == 4
MaxApply == 2
\* Calls made on a BufferedWriter used on its own, before close().
MaxCalls == 3

\* ------------------------------------------------------------ inputs

\* The .zst files os.listdir returns, in listing order (organize.py:235).
FileList == <<"f1.zst", "f2.zst">>
Files == {FileList[i] : i \in 1..Len(FileList)}

\* Subreddit names are sequences of characters.
SubNames == {<<"a">>, <<"x">>}
\* created_utc values, epoch seconds: 2020-01-01 00:00:00 UTC.
Times == {1577836800}
\* created_utc values either side of a month's end: 2020-01-31 23:59:59 and
\* 2020-02-01 00:00:00 UTC.
TimesWide == {1580515199, 1580515200}
\* Subreddit names that differ in case or punctuation only.
CaseNames == {<<"A", "b">>, <<"a", "b">>, <<"a", ".", "b">>}

\* str.lower() over the letters of the model's alphabet.
LowerChar(c) == IF c = "A" THEN "a" ELSE c
Lower(name) == [n \in 1..Len(name) |-> LowerChar(name[n])]
\* organize.py:30-39: each csv name is lower-cased and a leading "r/" removed.
read_whitelist(csv) ==
    {LET l == Lower(name)
     IN  IF Len(l) >= 2 /\ l[1] = "r" /\ l[2] = "/" THEN SubSeq(l, 3, Len(l)) ELSE l
     : name \in csv}
\* The "name" column of data/whitelist.csv.
CsvNames == {<<"r", "/", "a">>}
CsvCase == {<<"A", "b">>}
\* organize.py:41: WHITELIST = read_whitelist(DEFAULT_WHITELIST_PATH)
WHITELIST == read_whitelist(CsvNames)

\* organize.py:49-51: datetime.fromtimestamp(created_utc, UTC).strftime("%Y-%m"),
\* the label as the pair <<year, month>>. Days since the epoch are turned into
\* a proleptic Gregorian date the way datetime does.
get_month_year(created_utc) ==
    LET days == created_utc \div 86400
        z == days + 719468
        era == z \div 146097
        doe == z - era * 146097
        yoe == (doe - doe \div 1460 + doe \div 36524 - doe \div 146096) \div 365
        doy == doe - (365 * yoe + yoe \div 4 - yoe \div 100)
        mp == (5 * doy + 2) \div 153
        m == IF mp < 10 THEN mp + 3 ELSE mp - 9
        y == yoe + era * 400 + (IF m <= 2 THEN 1 ELSE 0)
    IN  <<y, m>>

\* Characters re's \w matches on a str pattern, and "-". On str, \w also
\* matches non-ASCII letters; "eacute" stands for one of them.
AsciiWordChars == {"a", "b", "x", "A", "0", "_"}
UnicodeWordChars == {"eacute"}
KeptChars == AsciiWordChars \cup UnicodeWordChars \cup {"-"}

Min(a, b) == IF a <= b THEN a ELSE b

IsKept(c) == c \in KeptChars

\* organize.py:45-47
\* A sanitize that removes the first rejected character only.
sanitize_first_only(name) ==
    LET bad == {n \in 1..Len(name) : ~IsKept(name[n])}
        first == IF bad = {} THEN 0 ELSE CHOOSE n \in bad : \A m \in bad : n <= m
        sanitized == IF first = 0 THEN name
                     ELSE SubSeq(name, 1, first - 1) \o SubSeq(name, first + 1, Len(name))
    IN  SubSeq(sanitized, 1, Min(Len(sanitized), MAX_NAME_LEN))

sanitize_subreddit_name(name) ==
    LET sanitized == SelectSeq(name, IsKept)
    IN  SubSeq(sanitized, 1, Min(MAX_NAME_LEN, Len(sanitized)))

\* A row of an input file: the two fields process_file reads.
Rows == [subreddit : SubNames, created_utc : Times]
\* Rows either side of a month's end, and rows whose names differ in case or
\* punctuation only.
RowsWide == [subreddit : SubNames, created_utc : TimesWide]
RowsCase == [subreddit : CaseNames, created_utc : Times]
\* A row without a "subreddit" field: row["subreddit"] raises KeyError.
Missing == <<"KeyError">>
BadRows == [subreddit : {Missing}, created_utc : Times]
HasFields(row) == row.subreddit # Missing

RECURSIVE SeqsUpTo(_, _)
SeqsUpTo(S, n) ==
    IF n = 0 THEN {<<>>}
    ELSE LET shorter == SeqsUpTo(S, n - 1)
         IN  shorter \cup {Append(s, x) : s \in {t \in shorter : Len(t) = n - 1}, x \in S}

FileContents == SeqsUpTo(Rows, MaxRecords)

\* A row's identity: the file it is in and its index there.
RecIds == [f : Files, i : 1..MaxRecords]

\* ------------------------------------------------------------ state

VARIABLES
    content,        \* input files: file -> sequence of rows
    whitelist,      \* the WHITELIST global, as read from the csv at import
    isdir,          \* os.path.isdir(fileOrFolderPath): a folder of files, or one file
    ckptFile,       \* checkpoint.pkl on disk: dict file -> offset
    jsonl,          \* <month>/<name>.jsonl on disk: key -> lines (<<>>: no file)
    zst,            \* <month>/<name>.zst on disk: key -> lines (<<>>: no file)
    mainPc,         \* main(): "load", "file", "psf", "compress", "done"
    fileIdx,        \* main(): index of the for loop over files
    checkpoint,     \* main(): the dict returned by load_checkpoint
    runNo,          \* how many times main() has been started
    pfPc,           \* process_single_file / process_file position
    start_position, \* process_single_file argument
    pos,            \* f.tell() of the input stream, in rows
    chunk,          \* process_file: rows of the batch being built, in order
    row_count,      \* process_file: row_count
    final_position, \* process_single_file: final_position
    nSent,          \* process_single_file: None sentinels put on queue
    queue,          \* manager.Queue(maxsize): work items and None
    ckq,            \* checkpoint_queue: confirmations and None
    wPc,            \* writer_process position, per writer
    wItem,          \* writer_process: the item being processed
    wKeys,          \* process_chunk: (month, subreddit) entries still to write
    cpPc,           \* checkpoint_process position
    cpDict,         \* checkpoint_process: its local checkpoint dict
    ioErrors,       \* I/O errors raised so far
    failed,         \* files whose process_file ended in the except branch, this run
    ckptAtLoad,     \* history: checkpoint.pkl as main() loaded it, this run
    crashBatches,   \* history: batches written but not persisted at the last crash
    appended,       \* history: the rows this run appended to each shard, in order
    compKey,        \* compress_output_files: shard compressed, not yet removed
    o2Pc,           \* organize2.py main(): "off", "load", "file", "iter", "yield", "dump", "done"
    o2Idx,          \* organize2.py process_files: index of the loop over files
    start_positions,\* organize2.py main(): start_positions, by file
    o2Pos,          \* organize2.py process_file: mmapped_file.tell(), in rows
    batch,          \* organize2.py process_file: batch
    buffers,        \* BufferedWriter.buffers: entries (key, lines) in insertion order
    file_handles,   \* BufferedWriter.file_handles: dict key -> "open" or "closed"
    out2,           \* organize2.py's <month>/<name>.jsonl: dict key -> lines written
    o2Checkpoint,   \* organize2.py main(): checkpoint
    o2Final,        \* organize2.py: the final_position process_file returned
    sanIn,          \* a name sanitize_subreddit_name is called with
    sanOut,         \* what the calls returned, each call made on the last result
    bwLog,          \* history: the lines passed to BufferedWriter.write, by key
    bwCalls,        \* calls made on a BufferedWriter used on its own
    bwRaised        \* whether the last of these calls raised

persist == <<ckptFile, jsonl, zst>>
mainv == <<mainPc, fileIdx, checkpoint, compKey>>
prodv == <<pfPc, start_position, pos, chunk, row_count, final_position, nSent>>
writerv == <<wPc, wItem, wKeys>>
cpv == <<cpPc, cpDict>>
hist == <<failed, ckptAtLoad, crashBatches, appended>>
o2v == <<o2Pc, o2Idx, start_positions, o2Pos, batch, buffers, file_handles, out2,
         o2Checkpoint, o2Final>>
sanv == <<sanIn, sanOut>>
bwv == <<bwLog, bwCalls, bwRaised>>
vars == <<content, whitelist, isdir, sanv, bwv, o2v, persist, mainv, runNo, prodv, queue, ckq, writerv, cpv,
          ioErrors, hist>>

Writers == 1..NUM_PROCESSES

None == [none |-> TRUE]
EmptyDict == [x \in {} |-> 0]

\* d[k] = v of a Python dict.
DictPut(d, k, v) == [x \in DOMAIN d \cup {k} |-> IF x = k THEN v ELSE d[x]]
\* d.get(k, default)
DictGet(d, k, default) == IF k \in DOMAIN d THEN d[k] ELSE default

QueueMax == QUEUE_FACTOR * NUM_PROCESSES

Row(r) == content[r.f][r.i]
\* organize.py:104-105
RowMonth(r) == get_month_year(Row(r).created_utc)
\* The dict entry chunk[month_year][subreddit] a row is appended to.
RawKey(r) == <<RowMonth(r), Row(r).subreddit>>
\* The output file of a dict entry (organize.py:54-61).
OutFile(k) == <<k[1], sanitize_subreddit_name(k[2])>>
OutFiles ==
    {<<get_month_year(row.created_utc), sanitize_subreddit_name(row.subreddit)>> :
        row \in Rows \cup RowsWide \cup RowsCase}

\* An allow-list test that lets every row through.
Allowed_All(row) == TRUE

\* organize.py:107: if WHITELIST and subreddit not in WHITELIST: continue
Allowed(row) == ~(whitelist # {} /\ row.subreddit \notin whitelist)

RECURSIVE Dedup(_)
Dedup(s) ==
    IF s = <<>> THEN <<>>
    ELSE LET h == Head(s)
         IN  <<h>> \o Dedup(SelectSeq(Tail(s), LAMBDA x : x # h))

\* The (month, subreddit) entries of a chunk in the order process_chunk
\* iterates them: months in insertion order, subreddits in insertion order
\* within a month (organize.py:73-74, dicts keep insertion order).
ChunkKeys(c) ==
    LET months == Dedup([n \in 1..Len(c) |-> RowMonth(c[n])])
        subsOf(m) == Dedup([n \in 1..Len(SelectSeq(c, LAMBDA r : RowMonth(r) = m))
                            |-> RawKey(SelectSeq(c, LAMBDA r : RowMonth(r) = m)[n])])
        RECURSIVE Cat(_)
        Cat(ms) == IF ms = <<>> THEN <<>> ELSE subsOf(Head(ms)) \o Cat(Tail(ms))
    IN  Cat(months)

\* chunk[month_year][subreddit]: the rows of one entry, in arrival order.
ChunkData(c, k) == SelectSeq(c, LAMBDA r : RawKey(r) = k)

Range(s) == {s[n] : n \in 1..Len(s)}

NoKey == <<>>
CurFile == FileList[fileIdx]

\* ------------------------------------------------------------ initial state

\* sanitize_subreddit_name is not called on its own.
SanOff ==
    /\ sanIn = <<>>
    /\ sanOut = <<>>

\* No BufferedWriter is used on its own.
BWOff ==
    /\ bwLog = EmptyDict
    /\ bwCalls = 0
    /\ bwRaised = FALSE

\* organize2.py is not run.
O2Off ==
    /\ o2Pc = "off"
    /\ o2Idx = 1
    /\ start_positions = [f \in Files |-> 0]
    /\ o2Pos = 0
    /\ batch = <<>>
    /\ buffers = <<>>
    /\ file_handles = EmptyDict
    /\ out2 = EmptyDict
    /\ o2Checkpoint = EmptyDict
    /\ o2Final = 0

\* organize2.py's main() is about to start.
O2Fresh ==
    /\ o2Pc = "load"
    /\ o2Idx = 1
    /\ start_positions = [f \in Files |-> 0]
    /\ o2Pos = 0
    /\ batch = <<>>
    /\ buffers = <<>>
    /\ file_handles = EmptyDict
    /\ out2 = EmptyDict
    /\ o2Checkpoint = EmptyDict
    /\ o2Final = 0

\* organize.py is not run.
OrgOff ==
    /\ mainPc = "off"
    /\ fileIdx = 1
    /\ checkpoint = EmptyDict
    /\ compKey = NoKey
    /\ pfPc = "idle"
    /\ start_position = 0
    /\ pos = 0
    /\ chunk = <<>>
    /\ row_count = 0
    /\ final_position = 0
    /\ nSent = 0
    /\ queue = <<>>
    /\ ckq = <<>>
    /\ wPc = [w \in Writers |-> "off"]
    /\ wItem = [w \in Writers |-> None]
    /\ wKeys = [w \in Writers |-> <<>>]
    /\ cpPc = "off"
    /\ cpDict = EmptyDict
    /\ failed = {}
    /\ ckptAtLoad = EmptyDict
    /\ appended = [k \in OutFiles |-> <<>>]

\* The volatile state of a freshly started interpreter.
FreshProcess ==
    /\ mainPc = "load"
    /\ fileIdx = 1
    /\ checkpoint = EmptyDict
    /\ compKey = NoKey
    /\ pfPc = "idle"
    /\ start_position = 0
    /\ pos = 0
    /\ chunk = <<>>
    /\ row_count = 0
    /\ final_position = 0
    /\ nSent = 0
    /\ queue = <<>>
    /\ ckq = <<>>
    /\ wPc = [w \in Writers |-> "off"]
    /\ wItem = [w \in Writers |-> None]
    /\ wKeys = [w \in Writers |-> <<>>]
    /\ cpPc = "off"
    /\ cpDict = EmptyDict
    /\ failed = {}
    /\ ckptAtLoad = EmptyDict
    /\ appended = [k \in OutFiles |-> <<>>]

Init ==
    /\ content \in [Files -> FileContents]
    /\ whitelist = WHITELIST
    /\ ckptFile = EmptyDict
    /\ jsonl = [k \in OutFiles |-> <<>>]
    /\ zst = [k \in OutFiles |-> <<>>]
    /\ runNo = 1
    /\ SanOff
    /\ BWOff
    /\ isdir = TRUE
    /\ ioErrors = 0
    /\ crashBatches = {}
    /\ FreshProcess
    /\ O2Off

\* ------------------------------------------------------------ main

\* organize.py:177-181, 225: checkpoint = load_checkpoint()
M_Load ==
    /\ mainPc = "load"
    /\ checkpoint' = ckptFile
    /\ ckptAtLoad' = ckptFile
    /\ mainPc' = "file"
    /\ UNCHANGED <<content, whitelist, isdir, sanv, bwv, o2v, persist, fileIdx, compKey, runNo, prodv, queue, ckq,
                   writerv, cpv, ioErrors, failed, crashBatches, appended>>

\* organize.py:237-240 and 183-196: the next file of the loop; process_single_file
\* creates the two queues, starts the writers and the checkpoint process and
\* calls process_file (79-83).
M_StartFile ==
    /\ mainPc = "file"
    /\ fileIdx <= Len(FileList)
    /\ start_position' = DictGet(checkpoint, CurFile, 0)
    /\ queue' = <<>>
    /\ ckq' = <<>>
    /\ wPc' = [w \in Writers |-> "get"]
    /\ wItem' = [w \in Writers |-> None]
    /\ wKeys' = [w \in Writers |-> <<>>]
    /\ cpPc' = "get"
    /\ cpDict' = EmptyDict
    /\ pfPc' = "open"
    /\ chunk' = <<>>
    /\ row_count' = 0
    /\ nSent' = 0
    /\ mainPc' = "psf"
    /\ UNCHANGED <<content, whitelist, isdir, sanv, bwv, o2v, persist, fileIdx, checkpoint, compKey, runNo, pos,
                   final_position, ioErrors, hist>>

\* organize.py:248: the loop is over, print("Done :>")
M_Done ==
    /\ mainPc = "file"
    /\ fileIdx > Len(FileList)
    /\ mainPc' = "done"
    /\ UNCHANGED <<content, whitelist, isdir, sanv, bwv, o2v, persist, fileIdx, checkpoint, compKey, runNo, prodv,
                   queue, ckq, writerv, cpv, ioErrors, hist>>

\* ------------------------------------------------------------ process_file

\* organize.py:89-98: open, clamp a negative start, seek.
PF_Open ==
    /\ pfPc = "open"
    /\ start_position' = IF start_position < 0 THEN 0 ELSE start_position
    /\ pos' = start_position'
    /\ pfPc' = "iter"
    /\ UNCHANGED <<content, whitelist, isdir, sanv, bwv, o2v, persist, mainv, runNo, chunk, row_count, final_position,
                   nSent, queue, ckq, writerv, cpv, ioErrors, hist>>

\* organize.py:141-143: open or the stream raises; the start position is returned.
PF_IOError ==
    /\ pfPc \in {"open", "iter"}
    /\ ioErrors < MaxIOErrors
    /\ ioErrors' = ioErrors + 1
    /\ final_position' = start_position
    /\ failed' = failed \cup {CurFile}
    /\ chunk' = <<>>
    /\ row_count' = 0
    /\ pfPc' = "sentinel"
    /\ UNCHANGED <<content, whitelist, isdir, sanv, bwv, o2v, persist, mainv, runNo, start_position, pos, nSent,
                   queue, ckq, writerv, cpv, ckptAtLoad, crashBatches, appended>>

\* The decoding stream getFileJsonStream returns over the file handle, seeked
\* to an offset: whether it yields another row, which row, and what f.tell()
\* answers once that row has been yielded. Offsets are counted in rows.
StreamHasNext(F, p) == p < Len(content[F])
StreamNext(F, p) == [f |-> F, i |-> p + 1]
TellAfter(F, p) == p + 1

\* queue.put((chunk, path, f.tell())) of organize.py:119 and 133
WorkItem(c, p) == [chunk |-> c, file_path |-> CurFile, file_position |-> p]

\* process_file with a put that gives up on a full queue instead of blocking:
\* the batch is dropped.
PF_Row_DropWhenFull ==
    /\ pfPc = "iter"
    /\ StreamHasNext(CurFile, pos)
    /\ LET r == StreamNext(CurFile, pos)
           grown == Append(chunk, r)
       IN  /\ pos' = TellAfter(CurFile, pos)
           /\ IF ~HasFields(Row(r))
              THEN /\ final_position' = start_position
                   /\ failed' = failed \cup {CurFile}
                   /\ chunk' = <<>>
                   /\ row_count' = 0
                   /\ pfPc' = "sentinel"
                   /\ UNCHANGED queue
              ELSE /\ UNCHANGED <<final_position, failed, pfPc>>
                   /\ IF ~Allowed(Row(r))
                      THEN UNCHANGED <<chunk, row_count, queue>>
                      ELSE IF row_count + 1 >= CHUNK_SIZE
                           THEN /\ queue' = IF Len(queue) < QueueMax
                                            THEN Append(queue, WorkItem(grown, pos'))
                                            ELSE queue
                                /\ chunk' = <<>>
                                /\ row_count' = 0
                           ELSE /\ chunk' = grown
                                /\ row_count' = row_count + 1
                                /\ UNCHANGED queue
    /\ UNCHANGED <<content, whitelist, isdir, sanv, bwv, o2v, persist, mainv, runNo, start_position, nSent, ckq,
                   writerv, cpv, ioErrors, ckptAtLoad, crashBatches, appended>>

\* organize.py:100-129 and 141-143: one iteration of the loop over the stream.
\* The inner try catches ZstdError and JSONDecodeError only: the KeyError of a
\* row without the field leaves the loop and the function through the outer
\* except, which returns the start position; the batch in progress is dropped.
PF_Row ==
    /\ pfPc = "iter"
    /\ StreamHasNext(CurFile, pos)
    /\ LET r == StreamNext(CurFile, pos)
           grown == Append(chunk, r)
       IN  /\ pos' = TellAfter(CurFile, pos)
           /\ IF ~HasFields(Row(r))
              THEN /\ final_position' = start_position
                   /\ failed' = failed \cup {CurFile}
                   /\ chunk' = <<>>
                   /\ row_count' = 0
                   /\ pfPc' = "sentinel"
                   /\ UNCHANGED queue
              ELSE /\ UNCHANGED <<final_position, failed, pfPc>>
                   /\ IF ~Allowed(Row(r))
                      THEN UNCHANGED <<chunk, row_count, queue>>
                      ELSE IF row_count + 1 >= CHUNK_SIZE
                           THEN /\ Len(queue) < QueueMax
                                /\ queue' = Append(queue, WorkItem(grown, pos'))
                                /\ chunk' = <<>>
                                /\ row_count' = 0
                           ELSE /\ chunk' = grown
                                /\ row_count' = row_count + 1
                                /\ UNCHANGED queue
    /\ UNCHANGED <<content, whitelist, isdir, sanv, bwv, o2v, persist, mainv, runNo, start_position, nSent, ckq,
                   writerv, cpv, ioErrors, ckptAtLoad, crashBatches, appended>>

\* organize.py:131-140: the stream is exhausted; the partial batch is put and
\* f.tell() returned.
PF_End ==
    /\ pfPc = "iter"
    /\ ~StreamHasNext(CurFile, pos)
    /\ IF chunk # <<>>
       THEN /\ Len(queue) < QueueMax
            /\ queue' = Append(queue, WorkItem(chunk, pos))
       ELSE UNCHANGED queue
    /\ final_position' = pos
    /\ chunk' = <<>>
    /\ row_count' = 0
    /\ pfPc' = "sentinel"
    /\ UNCHANGED <<content, whitelist, isdir, sanv, bwv, o2v, persist, mainv, runNo, start_position, pos, nSent,
                   ckq, writerv, cpv, ioErrors, hist>>

\* ------------------------------------------------------------ process_single_file

\* organize.py:202-203: one None per writer, each a blocking put.
PSF_PutSentinel ==
    /\ pfPc = "sentinel"
    /\ nSent < NUM_PROCESSES
    /\ Len(queue) < QueueMax
    /\ queue' = Append(queue, None)
    /\ nSent' = nSent + 1
    /\ UNCHANGED <<content, whitelist, isdir, sanv, bwv, o2v, persist, mainv, runNo, pfPc, start_position, pos, chunk,
                   row_count, final_position, ckq, writerv, cpv, ioErrors, hist>>

\* organize.py:204: checkpoint_queue.put(None)
PSF_PutCheckpointSentinel ==
    /\ pfPc = "sentinel"
    /\ nSent = NUM_PROCESSES
    /\ ckq' = Append(ckq, None)
    /\ pfPc' = "join"
    /\ UNCHANGED <<content, whitelist, isdir, sanv, bwv, o2v, persist, mainv, runNo, start_position, pos, chunk,
                   row_count, final_position, nSent, queue, writerv, cpv, ioErrors,
                   hist>>

\* organize.py:206-210 and 241: the joins return, process_single_file returns
\* and main records checkpoint[file] = final_position.
PSF_Join ==
    /\ pfPc = "join"
    /\ \A w \in Writers : wPc[w] \in {"exit", "dead"}
    /\ cpPc \in {"exit", "dead"}
    /\ checkpoint' = DictPut(checkpoint, CurFile, final_position)
    /\ pfPc' = "idle"
    /\ mainPc' = "compress"
    /\ UNCHANGED <<content, whitelist, isdir, sanv, bwv, o2v, persist, fileIdx, compKey, runNo, start_position, pos,
                   chunk, row_count, final_position, nSent, queue, ckq, writerv,
                   cpv, ioErrors, hist>>

\* ------------------------------------------------------------ writer_process

\* The (file_path, file_position) a writer puts on checkpoint_queue. The chunk
\* is history only: checkpoint_process never reads it.
Confirmation(item) ==
    [file_path |-> item.file_path, file_position |-> item.file_position,
     chunk |-> item.chunk]

\* writer_process with lines 152 and 153 swapped: the confirmation is put when
\* the item is taken, before process_chunk has written it.
W_Get_ConfirmFirst(w) ==
    /\ wPc[w] = "get"
    /\ queue # <<>>
    /\ queue' = Tail(queue)
    /\ IF Head(queue) = None
       THEN /\ wPc' = [wPc EXCEPT ![w] = "exit"]
            /\ UNCHANGED <<wItem, wKeys, ckq>>
       ELSE /\ wItem' = [wItem EXCEPT ![w] = Head(queue)]
            /\ wKeys' = [wKeys EXCEPT ![w] = ChunkKeys(Head(queue).chunk)]
            /\ wPc' = [wPc EXCEPT ![w] = "chunk"]
            /\ ckq' = Append(ckq, Confirmation(Head(queue)))
    /\ UNCHANGED <<content, whitelist, isdir, sanv, bwv, o2v, persist, mainv, runNo, prodv, cpv, ioErrors, hist>>

\* organize.py:148-151: queue.get; None ends the writer.
W_Get(w) ==
    /\ wPc[w] = "get"
    /\ queue # <<>>
    /\ queue' = Tail(queue)
    /\ IF Head(queue) = None
       THEN /\ wPc' = [wPc EXCEPT ![w] = "exit"]
            /\ UNCHANGED <<wItem, wKeys>>
       ELSE /\ wItem' = [wItem EXCEPT ![w] = Head(queue)]
            /\ wKeys' = [wKeys EXCEPT ![w] = ChunkKeys(Head(queue).chunk)]
            /\ wPc' = [wPc EXCEPT ![w] = "chunk"]
    /\ UNCHANGED <<content, whitelist, isdir, sanv, bwv, o2v, persist, mainv, runNo, prodv, ckq, cpv, ioErrors, hist>>

\* writer_process with "break" in place of "continue" at line 155: a writer
\* that finds the queue empty stops.
W_Timeout_Exit(w) ==
    /\ wPc[w] = "get"
    /\ queue = <<>>
    /\ wPc' = [wPc EXCEPT ![w] = "exit"]
    /\ UNCHANGED <<content, whitelist, isdir, sanv, bwv, o2v, persist, mainv, runNo, prodv, queue, ckq, wItem,
                   wKeys, cpv, ioErrors, hist>>

\* organize.py:154-155: queue.get timed out, the loop continues.
W_Timeout(w) ==
    /\ wPc[w] = "get"
    /\ queue = <<>>
    /\ UNCHANGED vars

\* organize.py:73-76 and 54-62: the next entry of the chunk; an entry whose
\* sanitized name is empty is skipped, otherwise its file is opened for append.
W_Open(w) ==
    /\ wPc[w] = "chunk"
    /\ wKeys[w] # <<>>
    /\ IF sanitize_subreddit_name(Head(wKeys[w])[2]) = <<>>
       THEN /\ wKeys' = [wKeys EXCEPT ![w] = Tail(wKeys[w])]
            /\ UNCHANGED wPc
       ELSE /\ wPc' = [wPc EXCEPT ![w] = "write"]
            /\ UNCHANGED wKeys
    /\ UNCHANGED <<content, whitelist, isdir, sanv, bwv, o2v, persist, mainv, runNo, prodv, queue, ckq, wItem, cpv,
                   ioErrors, hist>>

\* organize.py:62-64: the entry's rows are appended and the file is closed.
W_Write(w) ==
    /\ wPc[w] = "write"
    /\ LET k == Head(wKeys[w])
           out == OutFile(k)
       IN  /\ jsonl' = [jsonl EXCEPT ![out] = @ \o ChunkData(wItem[w].chunk, k)]
           /\ appended' = [appended EXCEPT ![out] = @ \o ChunkData(wItem[w].chunk, k)]
    /\ wKeys' = [wKeys EXCEPT ![w] = Tail(wKeys[w])]
    /\ wPc' = [wPc EXCEPT ![w] = "chunk"]
    /\ UNCHANGED <<content, whitelist, isdir, sanv, bwv, o2v, ckptFile, zst, mainv, runNo, prodv, queue, ckq, wItem,
                   cpv, ioErrors, failed, ckptAtLoad, crashBatches>>

\* organize.py:77 and 153: process_chunk has returned; the confirmation is put.
W_Confirm(w) ==
    /\ wPc[w] = "chunk"
    /\ wKeys[w] = <<>>
    /\ ckq' = Append(ckq, Confirmation(wItem[w]))
    /\ wItem' = [wItem EXCEPT ![w] = None]
    /\ wPc' = [wPc EXCEPT ![w] = "get"]
    /\ UNCHANGED <<content, whitelist, isdir, sanv, bwv, o2v, persist, mainv, runNo, prodv, queue, wKeys, cpv,
                   ioErrors, hist>>

\* ------------------------------------------------------------ checkpoint_process

\* organize.py:164-170: checkpoint_queue.get; None ends the process, anything
\* else is stored in the local dict, which is dumped over checkpoint.pkl.
CP_Get ==
    /\ cpPc = "get"
    /\ ckq # <<>>
    /\ ckq' = Tail(ckq)
    /\ IF Head(ckq) = None
       THEN /\ cpPc' = "exit"
            /\ UNCHANGED <<cpDict, ckptFile>>
       ELSE /\ cpDict' = DictPut(cpDict, Head(ckq).file_path, Head(ckq).file_position)
            /\ ckptFile' = cpDict'
            /\ UNCHANGED cpPc
    /\ UNCHANGED <<content, whitelist, isdir, sanv, bwv, o2v, jsonl, zst, mainv, runNo, prodv, queue, writerv,
                   ioErrors, hist>>

\* organize.py:171-172: checkpoint_queue.get timed out, the loop continues.
CP_Timeout ==
    /\ cpPc = "get"
    /\ ckq = <<>>
    /\ UNCHANGED vars

\* ------------------------------------------------------------ compress_output_files

\* organize.py:218-221 and 66-70: the next .jsonl shard of the listing is
\* compressed into <name>.zst, opened "wb".
C_Compress ==
    /\ mainPc = "compress"
    /\ compKey = NoKey
    /\ \E k \in OutFiles :
         /\ jsonl[k] # <<>>
         /\ zst' = [zst EXCEPT ![k] = jsonl[k]]
         /\ compKey' = k
    /\ UNCHANGED <<content, whitelist, isdir, sanv, bwv, o2v, ckptFile, jsonl, mainPc, fileIdx, checkpoint, runNo,
                   prodv, queue, ckq, writerv, cpv, ioErrors, hist>>

\* organize.py:222: os.remove(input_file)
C_Remove ==
    /\ mainPc = "compress"
    /\ compKey # NoKey
    /\ jsonl' = [jsonl EXCEPT ![compKey] = <<>>]
    /\ compKey' = NoKey
    /\ UNCHANGED <<content, whitelist, isdir, sanv, bwv, o2v, ckptFile, zst, mainPc, fileIdx, checkpoint, runNo,
                   prodv, queue, ckq, writerv, cpv, ioErrors, hist>>

\* organize.py:242 returns; the for loop of 237 moves to the next file.
C_Return ==
    /\ mainPc = "compress"
    /\ compKey = NoKey
    /\ \A k \in OutFiles : jsonl[k] = <<>>
    /\ fileIdx' = fileIdx + 1
    /\ mainPc' = "file"
    /\ UNCHANGED <<content, whitelist, isdir, sanv, bwv, o2v, persist, checkpoint, compKey, runNo, prodv, queue, ckq,
                   writerv, cpv, ioErrors, hist>>

\* ------------------------------------------------------------ I/O failures

\* organize.py:62-64 and 147-158: open(output_file, 'a') or f.write raises
\* OSError. writer_process catches Empty and EOFError only, so the writer
\* process ends with the batch it held; nothing is put on checkpoint_queue.
W_Fail(w) ==
    /\ wPc[w] = "write"
    /\ ioErrors' = ioErrors + 1
    /\ wPc' = [wPc EXCEPT ![w] = "dead"]
    /\ UNCHANGED <<content, whitelist, isdir, sanv, bwv, o2v, persist, mainv, runNo, prodv, queue, ckq, wItem, wKeys,
                   cpv, hist>>

\* A write failure, as long as the run has had fewer than MaxIOErrors failures.
W_WriteError(w) ==
    /\ ioErrors < MaxIOErrors
    /\ W_Fail(w)

\* organize.py:168-170: open(CHECKPOINT_FILE, 'wb') raises OSError after the
\* item was taken. checkpoint_process catches Empty and EOFError only, so the
\* process ends; checkpoint.pkl is as it was.
CP_WriteError ==
    /\ cpPc = "get"
    /\ ckq # <<>>
    /\ Head(ckq) # None
    /\ ioErrors < MaxIOErrors
    /\ ioErrors' = ioErrors + 1
    /\ ckq' = Tail(ckq)
    /\ cpDict' = DictPut(cpDict, Head(ckq).file_path, Head(ckq).file_position)
    /\ cpPc' = "dead"
    /\ UNCHANGED <<content, whitelist, isdir, sanv, bwv, o2v, persist, mainv, runNo, prodv, queue, writerv, hist>>

\* A failed compress_to_zst whose exception is swallowed by the caller.
C_CompressError_Swallowed ==
    /\ mainPc = "compress"
    /\ compKey = NoKey
    /\ ioErrors < MaxIOErrors
    /\ ioErrors' = ioErrors + 1
    /\ \E k \in OutFiles :
         /\ jsonl[k] # <<>>
         /\ \E n \in 0..(Len(jsonl[k]) - 1) :
              zst' = [zst EXCEPT ![k] = SubSeq(jsonl[k], 1, n)]
         /\ compKey' = k
    /\ UNCHANGED <<content, whitelist, isdir, sanv, bwv, o2v, ckptFile, jsonl, mainPc, fileIdx, checkpoint, runNo,
                   prodv, queue, ckq, writerv, cpv, hist>>

\* organize.py:66-70, 220-221 and 242: copy_stream raises after <name>.zst was
\* opened "wb" and part of the shard was written. Nothing catches it in
\* compress_output_files or main: os.remove is not reached and the run ends
\* with the traceback.
C_CompressError ==
    /\ mainPc = "compress"
    /\ compKey = NoKey
    /\ ioErrors < MaxIOErrors
    /\ ioErrors' = ioErrors + 1
    /\ \E k \in OutFiles :
         /\ jsonl[k] # <<>>
         /\ \E n \in 0..(Len(jsonl[k]) - 1) :
              zst' = [zst EXCEPT ![k] = SubSeq(jsonl[k], 1, n)]
         /\ compKey' = k
    /\ mainPc' = "aborted"
    /\ UNCHANGED <<content, whitelist, isdir, sanv, bwv, o2v, ckptFile, jsonl, fileIdx, checkpoint, runNo,
                   prodv, queue, ckq, writerv, cpv, hist>>

\* ------------------------------------------------------------ restarts

\* What is lost when the interpreter and its child processes end: everything
\* but the files on disk.
Restarted ==
    /\ runNo' = runNo + 1
    /\ mainPc' = "load"
    /\ fileIdx' = 1
    /\ checkpoint' = EmptyDict
    /\ compKey' = NoKey
    /\ pfPc' = "idle"
    /\ start_position' = 0
    /\ pos' = 0
    /\ chunk' = <<>>
    /\ row_count' = 0
    /\ final_position' = 0
    /\ nSent' = 0
    /\ queue' = <<>>
    /\ ckq' = <<>>
    /\ wPc' = [w \in Writers |-> "off"]
    /\ wItem' = [w \in Writers |-> None]
    /\ wKeys' = [w \in Writers |-> <<>>]
    /\ cpPc' = "off"
    /\ cpDict' = EmptyDict
    /\ failed' = {}
    /\ ckptAtLoad' = EmptyDict
    /\ appended' = [k \in OutFiles |-> <<>>]
    /\ UNCHANGED <<content, whitelist, isdir, sanv, bwv, o2v, persist, ioErrors>>

\* Batches whose shard writes are complete and whose own confirmation has not
\* been persisted: held by a writer about to confirm, or still queued.
WrittenUnpersisted ==
    {Confirmation(wItem[w]) : w \in {v \in Writers : wPc[v] = "chunk" /\ wKeys[v] = <<>>}}
    \cup {c \in Range(ckq) : c # None}

\* main() has printed "Done :>" and the script is run again on the same input.
Rerun ==
    /\ mainPc = "done"
    /\ runNo < MaxRuns
    /\ crashBatches' = {}
    /\ Restarted

\* The run is killed while a file is being processed; it is started again.
Crash ==
    /\ mainPc \in {"psf", "compress"}
    /\ runNo < MaxRuns
    /\ crashBatches' = WrittenUnpersisted
    /\ Restarted

\* ------------------------------------------------------------ organize2.py

\* The variables of organize.py's processes, which organize2.py leaves alone.
orgv == <<jsonl, zst, mainv, runNo, prodv, queue, ckq, writerv, cpv, ioErrors, hist>>

O2File == FileList[o2Idx]

\* organize2.py:62-73: the rows of the batch whose subreddit is a key of
\* WHITELIST_HASH, in batch order; result[month_year][subreddit] is then
\* ChunkData of it and result's iteration order ChunkKeys of it.
process_batch(b) == SelectSeq(b, LAMBDA r : Row(r).subreddit \in whitelist)

\* The BufferedWriter and its files as one value.
Writer == [buffers |-> buffers, file_handles |-> file_handles, out2 |-> out2]

\* Index of a key in the buffers dict (kept in insertion order), 0 if absent.
BufIdx(bufs, k) ==
    IF \E n \in 1..Len(bufs) : bufs[n].key = k
    THEN CHOOSE n \in 1..Len(bufs) : bufs[n].key = k
    ELSE 0

\* BytesIO.tell(): the size of a buffer, in rows.
RECURSIVE BufSize(_)
BufSize(lines) == IF lines = <<>> THEN 0 ELSE Len(Head(lines)) + BufSize(Tail(lines))

\* organize2.py:87-103: flush of the given keys in order; the file of a key
\* is opened for append the first time the key is flushed.
RECURSIVE BW_flush(_, _)
BW_flush(W, keys) ==
    IF keys = <<>> THEN W
    ELSE LET k == Head(keys)
             n == BufIdx(W.buffers, k)
         IN  BW_flush([buffers |-> [W.buffers EXCEPT ![n].data = <<>>],
                       file_handles |-> IF k \in DOMAIN W.file_handles
                                        THEN W.file_handles
                                        ELSE DictPut(W.file_handles, k, "open"),
                       out2 |-> DictPut(W.out2, OutFile(k),
                                        DictGet(W.out2, OutFile(k), <<>>) \o W.buffers[n].data)],
                      Tail(keys))

\* A close() that closes the files without flushing the buffers.
BW_close_NoFlush(W) ==
    [W EXCEPT !.file_handles = [k \in DOMAIN W.file_handles |-> "closed"]]

\* organize2.py:105-108: close() flushes every buffer, in the dict's order,
\* and closes every file.
BW_close(W) ==
    LET F == BW_flush(W, [n \in 1..Len(W.buffers) |-> W.buffers[n].key])
    IN  [F EXCEPT !.file_handles = [k \in DOMAIN F.file_handles |-> "closed"]]

\* organize2.py:81-85: one line is buffered under its key; a buffer that has
\* reached BUFFER_SIZE is flushed.
BW_write(W, k, line) ==
    LET n == BufIdx(W.buffers, k)
        b1 == IF n = 0
              THEN Append(W.buffers, [key |-> k, data |-> <<line>>])
              ELSE [W.buffers EXCEPT ![n].data = Append(@, line)]
        W1 == [W EXCEPT !.buffers = b1]
    IN  IF BufSize(b1[BufIdx(b1, k)].data) >= BUFFER_SIZE
        THEN BW_flush(W1, <<k>>)
        ELSE W1

\* organize2.py:137-140 and 155-158: every entry of process_batch's result is
\* written as one line, orjson.dumps(data) + newline.
RECURSIVE WriteEntries(_, _, _)
WriteEntries(W, keys, res) ==
    IF keys = <<>> THEN W
    ELSE WriteEntries(BW_write(W, Head(keys), ChunkData(res, Head(keys))), Tail(keys), res)

WriteBatch(W, b) == WriteEntries(W, ChunkKeys(process_batch(b)), process_batch(b))

\* organize2.py:63: row["subreddit"] raises KeyError for some row of the batch.
BatchRaises(b) == \E n \in 1..Len(b) : ~HasFields(Row(b[n]))

\* organize2.py:181-200: checkpoint = load_checkpoint(); the start positions
\* of all files are read from it; process_files creates the BufferedWriter.
O2_Load ==
    /\ o2Pc = "load"
    /\ o2Checkpoint' = ckptFile
    /\ start_positions' = [f \in Files |-> DictGet(ckptFile, f, 0)]
    /\ buffers' = <<>>
    /\ file_handles' = EmptyDict
    /\ o2Idx' = 1
    /\ o2Pc' = "file"
    /\ UNCHANGED <<content, whitelist, isdir, sanv, bwv, ckptFile, orgv, o2Pos, batch, out2, o2Final>>

\* organize2.py:170-171 and 113-128: process_file is called for the next file,
\* which is mapped and seeked to its start position.
O2_Open ==
    /\ o2Pc = "file"
    /\ o2Idx <= Len(FileList)
    /\ o2Pos' = start_positions[O2File]
    /\ batch' = <<>>
    /\ o2Pc' = "iter"
    /\ UNCHANGED <<content, whitelist, isdir, sanv, bwv, ckptFile, orgv, o2Idx, start_positions, buffers,
                   file_handles, out2, o2Checkpoint, o2Final>>

\* organize2.py:131-151: one iteration of the loop over the stream. A full
\* batch is classified and written and the batch emptied; when process_batch
\* raises, the handler continues the loop with the batch as it is.
O2_Row ==
    /\ o2Pc = "iter"
    /\ StreamHasNext(O2File, o2Pos)
    /\ LET grown == Append(batch, StreamNext(O2File, o2Pos))
       IN  /\ o2Pos' = TellAfter(O2File, o2Pos)
           /\ IF Len(grown) >= CHUNK_SIZE /\ ~BatchRaises(grown)
              THEN /\ buffers' = WriteBatch(Writer, grown).buffers
                   /\ file_handles' = WriteBatch(Writer, grown).file_handles
                   /\ out2' = WriteBatch(Writer, grown).out2
                   /\ batch' = <<>>
              ELSE /\ batch' = grown
                   /\ UNCHANGED <<buffers, file_handles, out2>>
    /\ UNCHANGED <<content, whitelist, isdir, sanv, bwv, ckptFile, orgv, o2Pc, o2Idx, start_positions,
                   o2Checkpoint, o2Final>>

\* organize2.py:153-166: the stream is exhausted; the remaining batch is
\* classified and written outside the inner try: when process_batch raises,
\* the outer handler returns the start position.
O2_End ==
    /\ o2Pc = "iter"
    /\ ~StreamHasNext(O2File, o2Pos)
    /\ IF batch # <<>> /\ BatchRaises(batch)
       THEN /\ o2Final' = start_positions[O2File]
            /\ UNCHANGED <<buffers, file_handles, out2>>
       ELSE /\ o2Final' = o2Pos
            /\ buffers' = WriteBatch(Writer, batch).buffers
            /\ file_handles' = WriteBatch(Writer, batch).file_handles
            /\ out2' = WriteBatch(Writer, batch).out2
    /\ batch' = <<>>
    /\ o2Pc' = "yield"
    /\ UNCHANGED <<content, whitelist, isdir, sanv, bwv, ckptFile, orgv, o2Idx, start_positions, o2Pos,
                   o2Checkpoint>>

\* A main that dumps the checkpoint as soon as a file has been read, while
\* the BufferedWriter still holds its buffers.
O2_Yield_Dump ==
    /\ o2Pc = "yield"
    /\ isdir
    /\ o2Checkpoint' = DictPut(o2Checkpoint, O2File, o2Final)
    /\ ckptFile' = o2Checkpoint'
    /\ o2Idx' = o2Idx + 1
    /\ o2Pc' = "file"
    /\ UNCHANGED <<content, whitelist, isdir, sanv, bwv, orgv, start_positions, o2Pos, batch,
                   buffers, file_handles, out2, o2Final>>

\* organize2.py:186, 172 and 199-200: in the directory branch the generator
\* yields and main records checkpoint[file] = final_position.
O2_Yield ==
    /\ o2Pc = "yield"
    /\ isdir
    /\ o2Checkpoint' = DictPut(o2Checkpoint, O2File, o2Final)
    /\ o2Idx' = o2Idx + 1
    /\ o2Pc' = "file"
    /\ UNCHANGED <<content, whitelist, isdir, sanv, bwv, ckptFile, orgv, start_positions, o2Pos, batch,
                   buffers, file_handles, out2, o2Final>>

\* organize2.py:173 and 105-108: after the last file, writer.close() flushes
\* every buffer, in the dict's order, and closes the files.
O2_Close ==
    /\ o2Pc = "file"
    /\ o2Idx > Len(FileList)
    /\ buffers' = BW_close(Writer).buffers
    /\ file_handles' = BW_close(Writer).file_handles
    /\ out2' = BW_close(Writer).out2
    /\ o2Pc' = "dump"
    /\ UNCHANGED <<content, whitelist, isdir, sanv, bwv, ckptFile, orgv, o2Idx, start_positions, o2Pos,
                   batch, o2Checkpoint, o2Final>>

\* organize2.py:204-209: in the single-file branch process_file has returned;
\* writer.close() flushes every buffer and closes the files, then main records
\* checkpoint[fileOrFolderPath] = final_position.
O2_CloseSingle ==
    /\ o2Pc = "yield"
    /\ ~isdir
    /\ buffers' = BW_close(Writer).buffers
    /\ file_handles' = BW_close(Writer).file_handles
    /\ out2' = BW_close(Writer).out2
    /\ o2Checkpoint' = DictPut(o2Checkpoint, O2File, o2Final)
    /\ o2Pc' = "dump"
    /\ UNCHANGED <<content, whitelist, isdir, sanv, bwv, ckptFile, orgv, o2Idx, start_positions, o2Pos,
                   batch, o2Final>>

\* organize2.py:202-203, 210-211 and 213: the checkpoint is dumped once, at
\* the end, and "Processing complete!" printed.
O2_Dump ==
    /\ o2Pc = "dump"
    /\ ckptFile' = o2Checkpoint
    /\ o2Pc' = "done"
    /\ UNCHANGED <<content, whitelist, isdir, sanv, bwv, orgv, o2Idx, start_positions, o2Pos, batch,
                   buffers, file_handles, out2, o2Checkpoint, o2Final>>

Step2 ==
    \/ O2_Load
    \/ O2_Open
    \/ O2_Row
    \/ O2_End
    \/ O2_Yield
    \/ O2_Close
    \/ O2_Dump

\* organize2.py's main() with both of its branches.
NextO2 ==
    \/ Step2
    \/ O2_CloseSingle

\* ------------------------------------------------------------ BufferedWriter on its own

\* The keys the calls are made with: two that share an output file and one
\* of another month.
BWKeys == {<<<<2020, 1>>, <<"a">>>>, <<<<2020, 1>>, <<"a", ".">>>>, <<<<2020, 2>>, <<"a">>>>}

\* The data of the n-th call, a write(key, data) of the given size: its
\* units carry the key and the call they came with.
BWLine(k, n, size) == [i \in 1..size |-> [key |-> k, call |-> n, unit |-> i]]

\* The lines buffered under a key, and the lines of a key in its output file.
BufData(bufs, k) == IF BufIdx(bufs, k) = 0 THEN <<>> ELSE bufs[BufIdx(bufs, k)].data
FileLinesOf(out, k) ==
    SelectSeq(DictGet(out, OutFile(k), <<>>), LAMBDA line : line[1].key = k)

\* A flush whose j-th key fails and whose handler empties the failed buffer.
BW_flush_fails_Dropping(W, keys, j, stage, n) ==
    LET W1 == BW_flush(W, SubSeq(keys, 1, j - 1))
        k == keys[j]
        data == BufData(W1.buffers, k)
    IN  [buffers |-> [W1.buffers EXCEPT ![BufIdx(W1.buffers, k)].data = <<>>],
         file_handles |-> IF stage = "open" \/ k \in DOMAIN W1.file_handles
                          THEN W1.file_handles
                          ELSE DictPut(W1.file_handles, k, "open"),
         out2 |-> IF stage = "open" THEN W1.out2
                  ELSE DictPut(W1.out2, OutFile(k),
                               DictGet(W1.out2, OutFile(k), <<>>) \o SubSeq(data, 1, n))]

\* organize2.py:92-103 with an OSError at the j-th key of a flush: the keys
\* before it are flushed; at the j-th either makedirs or open raises (no file
\* is opened) or the write raises after n of the buffer's lines; the line that
\* resets the buffer is not reached, and the later keys are not visited.
BW_flush_fails(W, keys, j, stage, n) ==
    LET W1 == BW_flush(W, SubSeq(keys, 1, j - 1))
        k == keys[j]
        data == BufData(W1.buffers, k)
    IN  [buffers |-> W1.buffers,
         file_handles |-> IF stage = "open" \/ k \in DOMAIN W1.file_handles
                          THEN W1.file_handles
                          ELSE DictPut(W1.file_handles, k, "open"),
         out2 |-> IF stage = "open" THEN W1.out2
                  ELSE DictPut(W1.out2, OutFile(k),
                               DictGet(W1.out2, OutFile(k), <<>>) \o SubSeq(data, 1, n))]

\* The ways the j-th key of a flush can fail: at makedirs/open when the key
\* has no file yet, or at the write, after fewer lines than the buffer holds.
FailStages(W, keys, j) ==
    LET W1 == BW_flush(W, SubSeq(keys, 1, j - 1))
        len == Len(BufData(W1.buffers, keys[j]))
    IN  (IF keys[j] \in DOMAIN W1.file_handles THEN {} ELSE {<<"open", 0>>})
        \cup {<<"write", n>> : n \in 0..(len - 1)}

\* The buffers after write() has appended the data (organize2.py:82-83).
Buffered(bufs, k, line) ==
    IF BufIdx(bufs, k) = 0
    THEN Append(bufs, [key |-> k, data |-> <<line>>])
    ELSE [bufs EXCEPT ![BufIdx(bufs, k)].data = Append(@, line)]

AllKeys(bufs) == [n \in 1..Len(bufs) |-> bufs[n].key]

\* organize2.py:81-85: writer.write(month_year, subreddit, data) returns.
BWCall_Write ==
    /\ o2Pc = "writer"
    /\ bwCalls < MaxCalls
    /\ \E k \in BWKeys, size \in 1..BUFFER_SIZE :
         LET line == BWLine(k, bwCalls + 1, size)
         IN  /\ bwLog' = DictPut(bwLog, k, Append(DictGet(bwLog, k, <<>>), line))
             /\ buffers' = BW_write(Writer, k, line).buffers
             /\ file_handles' = BW_write(Writer, k, line).file_handles
             /\ out2' = BW_write(Writer, k, line).out2
    /\ bwCalls' = bwCalls + 1
    /\ bwRaised' = FALSE
    /\ UNCHANGED <<content, whitelist, isdir, sanv, ckptFile, orgv, o2Pc, o2Idx,
                   start_positions, o2Pos, batch, o2Checkpoint, o2Final>>

\* organize2.py:81-85 and 92-103: the data is buffered, the buffer has reached
\* BUFFER_SIZE and its flush raises.
BWCall_WriteFails ==
    /\ o2Pc = "writer"
    /\ bwCalls < MaxCalls
    /\ ioErrors < MaxIOErrors
    /\ \E k \in BWKeys, size \in 1..BUFFER_SIZE :
         LET line == BWLine(k, bwCalls + 1, size)
             W1 == [Writer EXCEPT !.buffers = Buffered(buffers, k, line)]
         IN  /\ BufSize(BufData(W1.buffers, k)) >= BUFFER_SIZE
             /\ bwLog' = DictPut(bwLog, k, Append(DictGet(bwLog, k, <<>>), line))
             /\ \E f \in FailStages(W1, <<k>>, 1) :
                  /\ buffers' = BW_flush_fails(W1, <<k>>, 1, f[1], f[2]).buffers
                  /\ file_handles' = BW_flush_fails(W1, <<k>>, 1, f[1], f[2]).file_handles
                  /\ out2' = BW_flush_fails(W1, <<k>>, 1, f[1], f[2]).out2
    /\ bwCalls' = bwCalls + 1
    /\ ioErrors' = ioErrors + 1
    /\ bwRaised' = TRUE
    /\ UNCHANGED <<content, whitelist, isdir, sanv, ckptFile, jsonl, zst, mainv, runNo,
                   prodv, queue, ckq, writerv, cpv, hist, o2Pc, o2Idx, start_positions,
                   o2Pos, batch, o2Checkpoint, o2Final>>

\* organize2.py:87-103: writer.flush() or writer.flush(key) returns.
BWCall_Flush ==
    /\ o2Pc = "writer"
    /\ bwCalls < MaxCalls
    /\ \E keys \in {AllKeys(buffers)} \cup {<<buffers[n].key>> : n \in 1..Len(buffers)} :
         /\ buffers' = BW_flush(Writer, keys).buffers
         /\ file_handles' = BW_flush(Writer, keys).file_handles
         /\ out2' = BW_flush(Writer, keys).out2
    /\ bwCalls' = bwCalls + 1
    /\ bwRaised' = FALSE
    /\ UNCHANGED <<content, whitelist, isdir, sanv, bwLog, ckptFile, orgv, o2Pc, o2Idx,
                   start_positions, o2Pos, batch, o2Checkpoint, o2Final>>

\* organize2.py:87-103: writer.flush() or writer.flush(key) raises at one of
\* its keys.
BWCall_FlushFails ==
    /\ o2Pc = "writer"
    /\ bwCalls < MaxCalls
    /\ ioErrors < MaxIOErrors
    /\ \E keys \in {AllKeys(buffers)} \cup {<<buffers[n].key>> : n \in 1..Len(buffers)} :
         \E j \in 1..Len(keys) : \E f \in FailStages(Writer, keys, j) :
             /\ buffers' = BW_flush_fails(Writer, keys, j, f[1], f[2]).buffers
             /\ file_handles' = BW_flush_fails(Writer, keys, j, f[1], f[2]).file_handles
             /\ out2' = BW_flush_fails(Writer, keys, j, f[1], f[2]).out2
    /\ bwCalls' = bwCalls + 1
    /\ ioErrors' = ioErrors + 1
    /\ bwRaised' = TRUE
    /\ UNCHANGED <<content, whitelist, isdir, sanv, bwLog, ckptFile, jsonl, zst, mainv,
                   runNo, prodv, queue, ckq, writerv, cpv, hist, o2Pc, o2Idx,
                   start_positions, o2Pos, batch, o2Checkpoint, o2Final>>

\* organize2.py:105-108: writer.close() returns.
BWCall_Close ==
    /\ o2Pc = "writer"
    /\ buffers' = BW_close(Writer).buffers
    /\ file_handles' = BW_close(Writer).file_handles
    /\ out2' = BW_close(Writer).out2
    /\ o2Pc' = "closed"
    /\ bwRaised' = FALSE
    /\ UNCHANGED <<content, whitelist, isdir, sanv, bwLog, bwCalls, ckptFile, orgv, o2Idx,
                   start_positions, o2Pos, batch, o2Checkpoint, o2Final>>

InitWriter ==
    /\ content = [f \in Files |-> <<>>]
    /\ whitelist = WHITELIST
    /\ isdir = TRUE
    /\ ckptFile = EmptyDict
    /\ jsonl = [k \in OutFiles |-> <<>>]
    /\ zst = [k \in OutFiles |-> <<>>]
    /\ runNo = 1
    /\ ioErrors = 0
    /\ crashBatches = {}
    /\ OrgOff
    /\ sanIn = <<>>
    /\ sanOut = <<>>
    /\ bwLog = EmptyDict
    /\ bwCalls = 0
    /\ bwRaised = FALSE
    /\ o2Pc = "writer"
    /\ o2Idx = 1
    /\ start_positions = [f \in Files |-> 0]
    /\ o2Pos = 0
    /\ batch = <<>>
    /\ buffers = <<>>
    /\ file_handles = EmptyDict
    /\ out2 = EmptyDict
    /\ o2Checkpoint = EmptyDict
    /\ o2Final = 0

NextWriter ==
    \/ BWCall_Write
    \/ BWCall_WriteFails
    \/ BWCall_Flush
    \/ BWCall_FlushFails
    \/ BWCall_Close

SpecWriter == InitWriter /\ [][NextWriter]_vars

\* ------------------------------------------------------------ sanitize_subreddit_name

\* Names to sanitize: short ones, and ones that reach MAX_NAME_LEN within
\* their last characters, over a kept letter, a kept sign, a rejected
\* character and a non-ASCII letter.
SanChars == {"a", "_", ".", "eacute"}
Padding == [n \in 1..(MAX_NAME_LEN - 2) |-> "b"]
SanInputs ==
    {pad \o tail : pad \in {<<>>, Padding}, tail \in SeqsUpTo(SanChars, MaxSuffix)}

\* organize.py:45-47 (organize2.py:54-56): sanitize_subreddit_name is called on
\* the name, then on what it returned.
San_Apply ==
    /\ mainPc = "off"
    /\ o2Pc = "off"
    /\ Len(sanOut) < MaxApply
    /\ sanOut' = Append(sanOut, sanitize_subreddit_name(
                                    IF sanOut = <<>> THEN sanIn ELSE sanOut[Len(sanOut)]))
    /\ UNCHANGED <<content, whitelist, isdir, sanIn, bwv, o2v, persist, orgv>>

InitSan ==
    /\ content = [f \in Files |-> <<>>]
    /\ whitelist = WHITELIST
    /\ ckptFile = EmptyDict
    /\ jsonl = [k \in OutFiles |-> <<>>]
    /\ zst = [k \in OutFiles |-> <<>>]
    /\ runNo = 1
    /\ ioErrors = 0
    /\ crashBatches = {}
    /\ OrgOff
    /\ O2Off
    /\ BWOff
    /\ isdir = TRUE
    /\ sanIn \in SanInputs
    /\ sanOut = <<>>

NextSan == San_Apply

SpecSan == InitSan /\ [][NextSan]_vars

\* ------------------------------------------------------------ specifications

Step ==
    \/ M_Load
    \/ M_StartFile
    \/ M_Done
    \/ PF_Open
    \/ PF_IOError
    \/ PF_Row
    \/ PF_End
    \/ PSF_PutSentinel
    \/ PSF_PutCheckpointSentinel
    \/ PSF_Join
    \/ \E w \in Writers : W_Get(w)
    \/ \E w \in Writers : W_Timeout(w)
    \/ \E w \in Writers : W_Open(w)
    \/ \E w \in Writers : W_Write(w)
    \/ \E w \in Writers : W_Confirm(w)
    \/ CP_Get
    \/ CP_Timeout
    \/ C_Compress
    \/ C_Remove
    \/ C_Return

\* One crash-free run of main().
Next == Step

Spec == Init /\ [][Next]_vars

\* One run of main() over files of which the first may hold rows without the
\* "subreddit" field.
InitBadRow ==
    /\ content \in [Files -> SeqsUpTo(Rows \cup BadRows, MaxRecords)]
    /\ content[FileList[2]] = <<>>
    /\ whitelist = WHITELIST
    /\ ckptFile = EmptyDict
    /\ jsonl = [k \in OutFiles |-> <<>>]
    /\ zst = [k \in OutFiles |-> <<>>]
    /\ runNo = 1
    /\ SanOff
    /\ BWOff
    /\ isdir = TRUE
    /\ ioErrors = 0
    /\ crashBatches = {}
    /\ FreshProcess
    /\ O2Off

SpecBadRow == InitBadRow /\ [][Next]_vars

\* One run of main() over one long file, long enough for the producer to find
\* the work queue full.
InitLong ==
    /\ content \in [Files -> SeqsUpTo(Rows, LongLen)]
    /\ Len(content[FileList[1]]) = LongLen
    /\ content[FileList[2]] = <<>>
    /\ whitelist = WHITELIST
    /\ ckptFile = EmptyDict
    /\ jsonl = [k \in OutFiles |-> <<>>]
    /\ zst = [k \in OutFiles |-> <<>>]
    /\ runNo = 1
    /\ SanOff
    /\ BWOff
    /\ isdir = TRUE
    /\ ioErrors = 0
    /\ crashBatches = {}
    /\ FreshProcess
    /\ O2Off

SpecLong == InitLong /\ [][Next]_vars

\* One run of either script, organize.py or organize2.py, over one file whose
\* rows lie either side of a month's end, with the allow-list empty or not.
InitClassify ==
    /\ content \in [Files -> SeqsUpTo(RowsWide, MaxRecords)]
    /\ content[FileList[2]] = <<>>
    /\ whitelist \in {{}, WHITELIST}
    /\ ckptFile = EmptyDict
    /\ jsonl = [k \in OutFiles |-> <<>>]
    /\ zst = [k \in OutFiles |-> <<>>]
    /\ runNo = 1
    /\ SanOff
    /\ BWOff
    /\ isdir = TRUE
    /\ ioErrors = 0
    /\ crashBatches = {}
    /\ \/ FreshProcess /\ O2Off
       \/ OrgOff /\ O2Fresh

NextClassify == Step \/ Step2

SpecClassify == InitClassify /\ [][NextClassify]_vars

\* One run of organize.py over one file whose subreddit names differ in case
\* or punctuation only, the allow-list read from a csv that names one of them.
InitCase ==
    /\ content \in [Files -> SeqsUpTo(RowsCase, MaxRecords)]
    /\ content[FileList[2]] = <<>>
    /\ whitelist \in {{}, read_whitelist(CsvCase)}
    /\ ckptFile = EmptyDict
    /\ jsonl = [k \in OutFiles |-> <<>>]
    /\ zst = [k \in OutFiles |-> <<>>]
    /\ runNo = 1
    /\ SanOff
    /\ BWOff
    /\ isdir = TRUE
    /\ ioErrors = 0
    /\ crashBatches = {}
    /\ FreshProcess
    /\ O2Off

SpecCase == InitCase /\ [][Next]_vars

\* One run of either script over one file that holds rows whose subreddit
\* name sanitizes to the empty string; the csv, when it has rows, names both
\* subreddits.
DotNames == {<<".">>, <<"a">>}
RowsDot == [subreddit : DotNames, created_utc : Times]

InitEmptyName ==
    /\ content \in [Files -> SeqsUpTo(RowsDot, MaxRecords)]
    /\ content[FileList[2]] = <<>>
    /\ whitelist \in {{}, read_whitelist(DotNames)}
    /\ ckptFile = EmptyDict
    /\ jsonl = [k \in OutFiles |-> <<>>]
    /\ zst = [k \in OutFiles |-> <<>>]
    /\ runNo = 1
    /\ SanOff
    /\ BWOff
    /\ isdir = TRUE
    /\ ioErrors = 0
    /\ crashBatches = {}
    /\ \/ FreshProcess /\ O2Off
       \/ OrgOff /\ O2Fresh

SpecEmptyName == InitEmptyName /\ [][NextClassify]_vars

\* One run of organize2.py's main() over a directory of two files or over the
\* first file alone, from no checkpoint or from one that an earlier run left
\* for the first file.
InitO2 ==
    /\ content \in [Files -> SeqsUpTo(Rows, MaxRecords)]
    /\ whitelist = WHITELIST
    /\ isdir \in BOOLEAN
    /\ ckptFile \in {EmptyDict, DictPut(EmptyDict, FileList[1], 1)}
    /\ \A F \in DOMAIN ckptFile : ckptFile[F] <= Len(content[F])
    /\ jsonl = [k \in OutFiles |-> <<>>]
    /\ zst = [k \in OutFiles |-> <<>>]
    /\ runNo = 1
    /\ SanOff
    /\ BWOff
    /\ ioErrors = 0
    /\ crashBatches = {}
    /\ OrgOff
    /\ O2Fresh

SpecO2 == InitO2 /\ [][NextO2]_vars

\* One run of main() in which writes to the output files and to
\* checkpoint.pkl may fail.
NextFaults ==
    \/ Step
    \/ \E w \in Writers : W_WriteError(w)
    \/ CP_WriteError

SpecFaults == Init /\ [][NextFaults]_vars

\* The rows of a file that keeps every writer busy and fills the work queue:
\* one batch for each writer and QueueMax batches more.
FullLen == CHUNK_SIZE * (NUM_PROCESSES + QueueMax)

\* One run of main() over such a file, under fair scheduling: the main
\* process, each writer process and the checkpoint process is a sequential
\* process the operating system keeps running, so each takes its next step if
\* that step stays possible. Reading the input may fail once and the write of
\* any writer may fail (a full disk fails them all); failures are not owed.
InitTerminate ==
    /\ content = [F \in Files |->
                     IF F = FileList[1]
                     THEN [n \in 1..FullLen |->
                              [subreddit |-> <<"a">>, created_utc |-> 1577836800]]
                     ELSE <<>>]
    /\ whitelist = WHITELIST
    /\ ckptFile = EmptyDict
    /\ jsonl = [k \in OutFiles |-> <<>>]
    /\ zst = [k \in OutFiles |-> <<>>]
    /\ runNo = 1
    /\ SanOff
    /\ BWOff
    /\ isdir = TRUE
    /\ ioErrors = 0
    /\ crashBatches = {}
    /\ FreshProcess
    /\ O2Off

NextTerminate ==
    \/ Step
    \/ \E w \in Writers : W_Fail(w)

FairTerminate ==
    /\ WF_vars(M_Load \/ M_StartFile \/ M_Done \/ PF_Open \/ PF_Row \/ PF_End
                 \/ PSF_PutSentinel \/ PSF_PutCheckpointSentinel \/ PSF_Join
                 \/ C_Compress \/ C_Remove \/ C_Return)
    /\ \A w \in Writers : WF_vars(W_Get(w) \/ W_Open(w) \/ W_Write(w) \/ W_Confirm(w))
    /\ WF_vars(CP_Get)

SpecTerminate == InitTerminate /\ [][NextTerminate]_vars /\ FairTerminate

\* The same run with no write failure.
SpecTerminateNoFail == InitTerminate /\ [][Next]_vars /\ FairTerminate

\* One run of main() in which compressing a shard may fail.
NextCompress ==
    \/ Step
    \/ C_CompressError

SpecCompress == Init /\ [][NextCompress]_vars

\* Crash-free runs of main(), the script run again when it is done.
NextRerun == Step \/ Rerun

SpecRerun == Init /\ [][NextRerun]_vars

\* Runs that may be killed at any moment and are then started again.
NextCrash == Step \/ Crash

SpecCrash == Init /\ [][NextCrash]_vars

\* ------------------------------------------------------------ properties

\* The lines of a key's output, compressed and not yet compressed.
Output(k) == zst[k] \o jsonl[k]

Count(seq, x) == Cardinality({n \in 1..Len(seq) : seq[n] = x})

\* The rows of a file that process_file batches and write_jsonl_chunk writes.
Writable(r) ==
    /\ Allowed(Row(r))
    /\ sanitize_subreddit_name(Row(r).subreddit) # <<>>

RowsOf(F) == {[f |-> F, i |-> n] : n \in 1..Len(content[F])}

InShard(r) == r \in Range(Output(OutFile(RawKey(r))))

\* Every row of a batch that has an output file is in it.
BatchWritten(c) ==
    \A r \in Range(c) :
        sanitize_subreddit_name(Row(r).subreddit) # <<>> => InShard(r)

\* C1: whenever checkpoint.pkl maps a file to offset O, every allow-listed row
\* of that file between this run's start offset and O is already in its shard.
C1_CheckpointCoversWritten ==
    \A F \in DOMAIN ckptFile :
        \A r \in RowsOf(F) :
            (/\ Writable(r)
             /\ r.i > DictGet(ckptAtLoad, F, 0)
             /\ r.i <= ckptFile[F]) => InShard(r)

\* C2: the offsets checkpoint_process writes for one file never decrease.
C2_CheckpointMonotone ==
    [][\A F \in DOMAIN ckptFile \cap DOMAIN ckptFile' :
           ckptFile'[F] >= ckptFile[F]]_vars

\* C3: a confirmation is put on checkpoint_queue only when its own batch is
\* already written, and checkpoint_process persists an offset only when the
\* batch of that confirmation is already written.
C3_ConfirmAfterWrite ==
    [][/\ \A c \in Range(ckq') \ Range(ckq) :
              c # None => BatchWritten(c.chunk)
       /\ ckptFile' # ckptFile =>
              /\ ckq # <<>>
              /\ Head(ckq) # None
              /\ BatchWritten(Head(ckq).chunk)]_vars

\* C3 witness: a full batch has been written, confirmed and persisted while
\* another confirmation waits on checkpoint_queue.
C3_Witness ==
    /\ ckptFile # EmptyDict
    /\ \E c \in Range(ckq) : c # None /\ c.chunk # <<>> /\ BatchWritten(c.chunk)
    /\ \E k \in OutFiles : Len(jsonl[k]) > CHUNK_SIZE

\* C4: after a crash that left a batch written but not persisted, the restarted
\* run ends with every row of that batch exactly twice in the output and with
\* no allow-listed row of the input missing (one input file, no I/O error).
C4_CrashBatchTwice ==
    (/\ mainPc = "done"
     /\ runNo = 2
     /\ ioErrors = 0
     /\ crashBatches # {}
     /\ content[FileList[2]] = <<>>)
    => /\ \A c \in crashBatches : \A r \in Range(c.chunk) :
              Writable(r) => Count(Output(OutFile(RawKey(r))), r) = 2
       /\ \A F \in Files : \A r \in RowsOf(F) : Writable(r) => InShard(r)

\* C5: when process_single_file has returned for a file streamed to its end
\* without error, checkpoint.pkl maps the file to the offset process_file
\* returned (a file with no entry counts as offset 0, as load_checkpoint's
\* caller reads it).
C5_DoneCheckpointFinal ==
    (/\ mainPc = "compress"
     /\ CurFile \notin failed)
    => DictGet(ckptFile, CurFile, 0) = final_position

\* C6: at the end of a first, crash-free run the compressed shard of every key
\* holds exactly the rows the run appended to that key.
C6_ShardHoldsAppended ==
    (/\ mainPc = "done"
     /\ runNo = 1)
    => \A k \in OutFiles : jsonl[k] = <<>> /\ zst[k] = appended[k]

\* C7: once checkpoint_process has exited on its sentinel, no confirmation is
\* left on (or later arrives on) checkpoint_queue.
C7_NoConfirmationDiscarded ==
    cpPc = "exit" => \A c \in Range(ckq) : c = None

\* C8: no two writers have the same output file open for append at once.
C8_SameShardSerialized ==
    \A w1, w2 \in Writers :
        (/\ w1 # w2
         /\ wPc[w1] = "write"
         /\ wPc[w2] = "write")
        => OutFile(Head(wKeys[w1])) # OutFile(Head(wKeys[w2]))

\* C9: a shard holds only rows of its own key, and rows of one input file are
\* in it in the order they were read.
C9_ShardInArrivalOrder ==
    \A k \in OutFiles :
        /\ \A n \in 1..Len(jsonl[k]) : OutFile(RawKey(jsonl[k][n])) = k
        /\ \A m, n \in 1..Len(jsonl[k]) :
               (m < n /\ jsonl[k][m].f = jsonl[k][n].f) => jsonl[k][m].i < jsonl[k][n].i

\* C10: at the end of a run, a file whose process_file failed has not had its
\* checkpoint advanced by main, and the entry checkpoint.pkl held for it when
\* the run started is still in checkpoint.pkl.
C10_FailedKeepsCheckpoint ==
    mainPc = "done" =>
        \A F \in failed :
            /\ checkpoint[F] = DictGet(ckptAtLoad, F, 0)
            /\ F \in DOMAIN ckptAtLoad => F \in DOMAIN ckptFile

\* C14: compress_output_files never changes a compressed shard that already
\* exists: a key whose <name>.zst is there is detected and skipped.
C14_CompressedShardKept ==
    [][mainPc = "compress" =>
         \A k \in OutFiles : zst[k] # <<>> => zst'[k] = zst[k]]_vars

\* C11: a row that raises while it is processed (here: a row without the
\* "subreddit" field) is skipped and the file goes on: when the run is done and
\* no I/O failed, every other allow-listed row of the file is in its shard.
C11_BadRowSkipped ==
    (mainPc = "done" /\ ioErrors = 0) =>
        \A r \in RowsOf(FileList[1]) :
            (HasFields(Row(r)) /\ Writable(r)) => InShard(r)

\* C12: the run never prints its completion line with the rows of a batch
\* whose write failed missing from the output: the rows a writer held when
\* its write raised are in their shard once main is done.
C12_WriteFailureNotSilent ==
    mainPc = "done" =>
        \A w \in Writers :
            wPc[w] = "dead" =>
                \A r \in Range(ChunkData(wItem[w].chunk, Head(wKeys[w]))) : InShard(r)

\* C13: once writing checkpoint.pkl has failed in checkpoint_process, no
\* writer takes another batch from the queue and main does not reach its
\* completion line.
C13_CheckpointFailureFatal ==
    [][cpPc = "dead" =>
         /\ \A w \in Writers : ~(wItem[w] = None /\ wItem'[w] # None)
         /\ mainPc' # "done"]_vars

Batched == {r \in RowsOf(CurFile) : r.i > start_position /\ r.i <= pos /\ Writable(r)}

\* C16: the work queue never holds more than 10 * NUM_PROCESSES items (scaled:
\* QueueMax), and no batch is dropped on the way: while a file is processed
\* without a failure, every row the producer has batched is in the batch in
\* progress, in a queued batch, in a writer's hands or in its output file.
C16_QueueBoundedNoDrop ==
    /\ Len(queue) <= QueueMax
    /\ (mainPc = "psf" /\ pfPc # "open" /\ CurFile \notin failed) =>
         \A r \in Batched :
            \/ r \in Range(chunk)
            \/ \E n \in 1..Len(queue) : queue[n] # None /\ r \in Range(queue[n].chunk)
            \/ \E w \in Writers : wItem[w] # None /\ r \in Range(wItem[w].chunk)
            \/ r \in Range(appended[OutFile(RawKey(r))])

\* C16 witness: the queue is full of batches, no writer has taken any, and
\* the producer holds a batch its next row completes: its put has to wait.
C16_Witness ==
    /\ pfPc = "iter"
    /\ Len(queue) = QueueMax
    /\ \A n \in 1..Len(queue) : queue[n] # None
    /\ row_count + 1 >= CHUNK_SIZE
    /\ StreamHasNext(CurFile, pos)
    /\ Allowed(Row(StreamNext(CurFile, pos)))

\* The shard a row belongs to, for the created_utc values of the model: its
\* UTC month and its sanitized subreddit name.
ExpectedMonth(t) == IF t < 1580515200 THEN <<2020, 1>> ELSE <<2020, 2>>
ExpectedShard(r) ==
    <<ExpectedMonth(Row(r).created_utc), sanitize_subreddit_name(Row(r).subreddit)>>

\* The rows in the lines of one of organize2.py's output files.
RowsIn2(k) ==
    LET lines == DictGet(out2, k, <<>>)
    IN  UNION {Range(lines[n]) : n \in 1..Len(lines)}

\* What a finished run of either script has written to a shard.
Written(k) ==
    IF o2Pc = "done" THEN RowsIn2(k) ELSE Range(Output(k))

Finished == (mainPc = "done" /\ ioErrors = 0) \/ o2Pc = "done"

C18_EmptyListAllowsAll ==
    (Finished /\ whitelist = {}) =>
        \A r \in RowsOf(FileList[1]) : r \in Written(ExpectedShard(r))

\* Two raw names are the same category when they differ in case and in
\* punctuation only.
SameCategory(n1, n2) ==
    Lower(sanitize_subreddit_name(n1)) = Lower(sanitize_subreddit_name(n2))

\* C19: when organize.py is done, two rows of one month whose raw subreddit
\* names differ in case or punctuation only are in the same shard: the shard
\* that holds one of them holds the other.
C19_SameCategorySameShard ==
    (mainPc = "done" /\ ioErrors = 0) =>
        \A r1, r2 \in RowsOf(FileList[1]) :
            (/\ SameCategory(Row(r1).subreddit, Row(r2).subreddit)
             /\ RowMonth(r1) = RowMonth(r2)) =>
                \A k \in OutFiles : r1 \in Range(Output(k)) => r2 \in Range(Output(k))

\* C20: sanitize_subreddit_name applied to its own result returns that result.
C20_SanitizeIdempotent ==
    \A n \in 2..Len(sanOut) : sanOut[n] = sanOut[n - 1]

\* C20 witness: a name longer than 50 characters that holds a rejected
\* character has been sanitized twice; the first call removed the character
\* and cut the name to 50.
C20_Witness ==
    /\ Len(sanOut) >= 2
    /\ Len(sanIn) > MAX_NAME_LEN
    /\ \E n \in 1..Len(sanIn) : ~IsKept(sanIn[n])
    /\ Len(sanOut[1]) = MAX_NAME_LEN
    /\ sanOut[1] # SubSeq(sanIn, 1, MAX_NAME_LEN)

\* C21: what sanitize_subreddit_name returns holds only characters of
\* [A-Za-z0-9_-] and at most 50 of them.
C21_SanitizedAsciiBounded ==
    \A n \in 1..Len(sanOut) :
        /\ Len(sanOut[n]) <= MAX_NAME_LEN
        /\ \A i \in 1..Len(sanOut[n]) : sanOut[n][i] \in AsciiWordChars \cup {"-"}

\* The output files a finished run of either script has left.
FilesOf ==
    IF o2Pc = "done" THEN DOMAIN out2 ELSE {k \in OutFiles : Output(k) # <<>>}

\* The rows that pass the allow-list test of the script that ran.
Passes(r) ==
    IF o2Pc = "done" THEN Row(r).subreddit \in whitelist ELSE Allowed(Row(r))

\* C22: a finished run of either script has created no output file for the
\* empty sanitized name and has written a row whose name sanitizes to the empty
\* string to no file, while the other rows that pass the allow-list are in
\* their shards.
C22_EmptyCategoryDropped ==
    Finished =>
        /\ \A k \in FilesOf : k[2] # <<>>
        /\ \A r \in RowsOf(FileList[1]) :
              IF sanitize_subreddit_name(Row(r).subreddit) = <<>>
              THEN \A k \in FilesOf : r \notin Written(k)
              ELSE Passes(r) => r \in Written(ExpectedShard(r))

NewLines(k) ==
    SubSeq(DictGet(bwLog', k, <<>>), Len(DictGet(bwLog, k, <<>>)) + 1,
           Len(DictGet(bwLog', k, <<>>)))

\* C24: in every call on the BufferedWriter, what is buffered under a key
\* (with what the call adds) is afterwards either gone from the buffer and
\* appended whole to the key's file, or still in the buffer unchanged, the
\* file unchanged too unless the call raised.
C24_FlushWholeOrKept ==
    [][\A k \in BWKeys :
         LET pending == BufData(buffers, k) \o NewLines(k)
         IN  pending # <<>> =>
               \/ /\ BufData(buffers', k) = <<>>
                  /\ FileLinesOf(out2', k) = FileLinesOf(out2, k) \o pending
               \/ /\ BufData(buffers', k) = pending
                  /\ FileLinesOf(out2', k) = FileLinesOf(out2, k) \/ bwRaised']_vars

\* C24 witness: a flush has raised after writing part of a buffer: the call
\* is reported as failed and the buffer still holds all its lines.
C24_Witness ==
    /\ o2Pc = "writer"
    /\ bwRaised
    /\ \E k \in BWKeys :
         /\ Len(BufData(buffers, k)) >= 2
         /\ BufData(buffers, k) = DictGet(bwLog, k, <<>>)
         /\ FileLinesOf(out2, k) = SubSeq(BufData(buffers, k), 1, 1)

\* C25: a commit of checkpoint_process for file F leaves every other file's
\* entry of checkpoint.pkl as it was: each file G other than F that the
\* checkpoint file held before the dump is still mapped to the same offset.
C25_OtherOffsetsKept ==
    [][(cpPc = "get" /\ ckq # <<>> /\ Head(ckq) # None) =>
         \A G \in DOMAIN ckptFile :
             G # Head(ckq).file_path =>
                 /\ G \in DOMAIN ckptFile'
                 /\ ckptFile'[G] = ckptFile[G]]_vars

\* Every row of a batch that has an output file has been appended to it.
AppendedAll(c) ==
    \A r \in Range(c) :
        sanitize_subreddit_name(Row(r).subreddit) # <<>> =>
            r \in Range(appended[OutFile(RawKey(r))])

C27_Terminates == (mainPc = "psf") ~> (mainPc = "compress")

\* The rows organize2.py holds in memory: those of the lines in the
\* BufferedWriter's buffers and those of the batch in progress.
HeldInMemory ==
    Range(batch) \cup
    UNION {UNION {Range(buffers[n].data[m]) : m \in 1..Len(buffers[n].data)} :
              n \in 1..Len(buffers)}

\* The rows of a file that this run of organize2.py has to have written once
\* the file's offset is O.
Covered2(F, O) ==
    {r \in RowsOf(F) : r.i > start_positions[F] /\ r.i <= O
                       /\ Row(r).subreddit \in whitelist}

\* C28: organize2.py writes checkpoint.pkl only after BufferedWriter.close()
\* has flushed every buffer. No offset in checkpoint.pkl covers a row that is
\* held in memory, and once the file is dumped every buffer is empty, every
\* file closed and every allow-listed row below a dumped offset is in its
\* output file, in the directory branch and in the single-file branch.
C28_DumpAfterClose ==
    o2Pc # "off" =>
        /\ \A r \in HeldInMemory :
              r.f \in DOMAIN ckptFile => r.i > ckptFile[r.f]
        /\ o2Pc = "done" =>
              /\ \A n \in 1..Len(buffers) : buffers[n].data = <<>>
              /\ \A k \in DOMAIN file_handles : file_handles[k] = "closed"
              /\ \A F \in DOMAIN o2Checkpoint :
                    /\ ckptFile[F] = o2Checkpoint[F]
                    /\ \A r \in Covered2(F, ckptFile[F]) :
                          r \in RowsIn2(OutFile(RawKey(r)))

\* C28 witness: the single-file branch has dumped an offset that covers a row
\* of an output file too small ever to have been flushed by write(): the row
\* stayed in its buffer until close().
C28_Witness ==
    /\ o2Pc = "done"
    /\ ~isdir
    /\ \E r \in Covered2(FileList[1], DictGet(ckptFile, FileList[1], 0)) :
          /\ r \in RowsIn2(OutFile(RawKey(r)))
          /\ BufSize(DictGet(out2, OutFile(RawKey(r)), <<>>)) < BUFFER_SIZE

\* The same in the directory branch, for a row of the first of two files.
C28_WitnessDir ==
    /\ o2Pc = "done"
    /\ isdir
    /\ content[FileList[2]] # <<>>
    /\ \E r \in Covered2(FileList[1], DictGet(ckptFile, FileList[1], 0)) :
          /\ r \in RowsIn2(OutFile(RawKey(r)))
          /\ BufSize(DictGet(out2, OutFile(RawKey(r)), <<>>)) < BUFFER_SIZE

====
